---- MODULE Spec2Model ----
(***************************************************************************)
(* Covariance / correlation accumulators, their merge algebra, and the     *)
(* derived sequence operations Shift and AutoCorr of                       *)
(* cpp/src/arrow/compute/kernels/additional.                               *)
(*                                                                         *)
(* A C++ double is modelled in exact arithmetic as a pair <<n, d>> with    *)
(* d >= 0 and gcd(n, d) = 1: d > 0 is the rational n/d, <<1, 0>> and       *)
(* <<-1, 0>> are +Inf and -Inf, <<0, 0>> is NaN.  Rounding is not          *)
(* modelled; division by zero follows IEEE-754 (x/0 = Inf, 0/0 = NaN).     *)
(***************************************************************************)
EXTENDS Integers, Sequences, FiniteSets, TLC

VARIABLES options, ctype, state, life, hist, last, sh, ac, fn

vars == <<options, ctype, state, life, hist, last, sh, ac, fn>>

(***************************************************************************)
(* Bounds of the model.                                                    *)
(***************************************************************************)
NAcc == 2        \* accumulator instances (aggregation partitions) of Spec
NAccValid == 3   \* accumulator instances of SpecValid
MaxVal == 1      \* element values are drawn from 0..MaxVal
MaxLen == 2      \* longest batch handed to one Consume
MaxTotal == 2    \* slots consumed over a whole behaviour of Spec
MaxValidTotal == 4 \* slots consumed over a whole behaviour of SpecValid
MaxNulls == 2    \* null slots consumed over a whole behaviour of Spec
MaxShiftLen == 3 \* longest input of Shift / AutoCorr
MaxPeriods == 4  \* |periods| of Shift, |lag| of AutoCorr
SumBits == 3     \* scaled width of the int64 sums: 63 in the source
ElemBits == 1    \* scaled width of the narrow element type: sizeof(CType)*8
MaxChunkedLen == 5   \* longest input of SpecChunks, above max_length
MaxChunkedNulls == 1 \* null slots per operand in SpecChunks
MaxIntVal == 2       \* element values of SpecIntCov are -MaxIntVal..MaxIntVal
MaxIntPairs == 3     \* pairs fed to one IntegerCovariance in SpecIntCov
MaxPatternLen == 8   \* SpecSum: every validity pattern up to this length
MaxRuns == 2         \* SpecSum: valid runs of a pattern made of long runs

Values == 0 .. MaxVal
Acc == DOMAIN state

(***************************************************************************)
(* double arithmetic                                                       *)
(***************************************************************************)
Sign(n) == IF n > 0 THEN 1 ELSE IF n < 0 THEN -1 ELSE 0

Abs(n) == IF n < 0 THEN -n ELSE n

RECURSIVE GCD(_, _)
GCD(a, b) == IF b = 0 THEN a ELSE GCD(b, a % b)

Norm(n, d) ==
  IF d = 0 THEN <<Sign(n), 0>>
  ELSE LET g == GCD(Abs(n), Abs(d))
       IN  <<Sign(d) * (Abs(n) \div g) * Sign(n), Abs(d) \div g>>

ToDouble(i) == <<i, 1>>

NaN == <<0, 0>>

IsFinite(a) == a[2] # 0

IsNaN(a) == a = NaN

RAdd(a, b) ==
  IF a[2] = 0 /\ b[2] = 0
    THEN (IF a = b THEN a ELSE NaN)
    ELSE Norm(a[1] * b[2] + b[1] * a[2], a[2] * b[2])

RNeg(a) == <<-a[1], a[2]>>

RSub(a, b) == RAdd(a, RNeg(b))

RMul(a, b) == Norm(a[1] * b[1], a[2] * b[2])

RInv(a) == IF a[1] < 0 THEN <<-a[2], -a[1]>> ELSE <<a[2], a[1]>>

RDiv(a, b) == RMul(a, RInv(b))

RSign(a) == <<Sign(a[1]), IF a = NaN THEN 0 ELSE 1>>

(***************************************************************************)
(* ArraySpan: a sequence of slots.  A slot has a validity bit and the      *)
(* content of the value buffer at that position; the buffer content of a   *)
(* null slot is unspecified, so it ranges over all values.                 *)
(***************************************************************************)
Slot == [valid : BOOLEAN, v : Values]

ArraysOfLen(n) == [1 .. n -> Slot]

Arrays(maxlen) == UNION {ArraysOfLen(n) : n \in 0 .. maxlen}

GetNullCount(arr) == Cardinality({i \in 1 .. Len(arr) : ~arr[i].valid})

ValidCount(arr) == Len(arr) - GetNullCount(arr)

\* the maximal runs of valid slots, as <<pos, len>> with pos counted from 0
RECURSIVE RunsFrom(_, _)
RunsFrom(arr, i) ==
  IF i > Len(arr) THEN <<>>
  ELSE IF ~arr[i].valid THEN RunsFrom(arr, i + 1)
  ELSE LET stop == IF \E j \in i .. Len(arr) : ~arr[j].valid
                     THEN CHOOSE j \in i .. Len(arr) :
                            /\ ~arr[j].valid
                            /\ \A k \in i .. j - 1 : arr[k].valid
                     ELSE Len(arr) + 1
       IN  <<<<i - 1, stop - i>>>> \o RunsFrom(arr, stop)

VisitSetBitRuns(arr) == RunsFrom(arr, 1)

SetSlice(arr, offset, length) == SubSeq(arr, offset + 1, offset + length)

Min(a, b) == IF a < b THEN a ELSE b

Max(a, b) == IF a > b THEN a ELSE b

(***************************************************************************)
(* ChunkedSummation: SumArray2WithCovariance.  The callback func is a      *)
(* function of the element values; terms[i] is func applied to the buffer  *)
(* contents of position i of both inputs; only the positions in the valid  *)
(* runs of data1 are visited.                                              *)
(***************************************************************************)
kBlockSize == 16

\* a Log2 that is one too small from 2 on
RECURSIVE Log2Short(_)
Log2Short(x) == IF x <= 2 THEN 0 ELSE 1 + Log2Short((x + 1) \div 2)

\* bit_util::Log2: ceil(log2(x)) for x >= 1
RECURSIVE Log2(_)
Log2(x) == IF x <= 1 THEN 0 ELSE 1 + Log2((x + 1) \div 2)

Bit(mask, level) == (mask \div (2 ^ level)) % 2

\* mask ^= (1 << level)
Xor(mask, level) ==
  IF Bit(mask, level) = 1 THEN mask - 2 ^ level ELSE mask + 2 ^ level

RECURSIVE NaiveSum(_, _, _)
NaiveSum(terms, first, n) ==
  IF n = 0 THEN ToDouble(0)
  ELSE RAdd(NaiveSum(terms, first, n - 1), terms[first + n - 1])

\* the while loop of reduce: carry a finished pair of sums to the upper level
RECURSIVE ReduceCarry(_, _, _)
ReduceCarry(rs, levels, cur_level) ==
  IF Bit(rs.mask, cur_level) # 0
    THEN [rs EXCEPT !.root_level = Max(@, cur_level)]
  ELSE IF cur_level + 1 >= levels
    THEN [rs EXCEPT !.ok = FALSE]
  ELSE ReduceCarry([rs EXCEPT !.sum[cur_level] = ToDouble(0),
                              !.sum[cur_level + 1] = RAdd(@, rs.sum[cur_level]),
                              !.mask = Xor(@, cur_level + 1)],
                   levels, cur_level + 1)

reduce(rs, levels, block_sum) ==
  IF ~rs.ok THEN rs
  ELSE ReduceCarry([rs EXCEPT !.sum[0] = RAdd(@, block_sum),
                              !.mask = Xor(@, 0),
                              !.calls = @ + 1],
                   levels, 0)

\* one valid run <<pos, len>>: its full blocks, then the remainder
RECURSIVE ReduceBlocks(_, _, _, _, _, _)
ReduceBlocks(rs, levels, terms, first, blocks, remains) ==
  IF blocks > 0
    THEN ReduceBlocks(reduce(rs, levels, NaiveSum(terms, first, kBlockSize)),
                      levels, terms, first + kBlockSize, blocks - 1, remains)
  ELSE IF remains > 0
    THEN reduce(rs, levels, NaiveSum(terms, first, remains))
  ELSE rs

RECURSIVE ReduceRuns(_, _, _, _)
ReduceRuns(rs, levels, terms, runs) ==
  IF runs = <<>> THEN rs
  ELSE LET pos == Head(runs)[1]
           len == Head(runs)[2]
       IN  ReduceRuns(ReduceBlocks(rs, levels, terms, pos + 1,
                                   len \div kBlockSize, len % kBlockSize),
                      levels, terms, Tail(runs))

\* no final loop
FoldLevelsNone(sum, i, root_level) == sum

\* the final loop: sum[i] += sum[i - 1] for i in 1..root_level
RECURSIVE FoldLevels(_, _, _)
FoldLevels(sum, i, root_level) ==
  IF i > root_level THEN sum
  ELSE FoldLevels([sum EXCEPT ![i] = RAdd(@, sum[i - 1])], i + 1, root_level)

\* the reducer's state after the last run: [sum, mask, root_level, calls, ok, levels]
TreeReduce(data1, terms) ==
  LET data_size == Len(data1) - GetNullCount(data1)
      levels == Log2(data_size) + 1
      rs0 == [sum |-> [l \in 0 .. levels - 1 |-> ToDouble(0)], mask |-> 0,
              root_level |-> 0, calls |-> 0, ok |-> TRUE]
  IN  ReduceRuns(rs0, levels, terms, VisitSetBitRuns(data1))

\* return sum[root_level] after the final loop; a level index out of range
\* of sum is reported as NaN
SumRootLevel(rs) ==
  IF rs.ok THEN FoldLevels(rs.sum, 1, rs.root_level)[rs.root_level] ELSE NaN

TreeSum(data1, terms) ==
  IF Len(data1) - GetNullCount(data1) = 0 THEN ToDouble(0)
  ELSE SumRootLevel(TreeReduce(data1, terms))

SumArray2WithCovariance(data1, data2, func) ==
  TreeSum(data1, [i \in 1 .. Len(data1) |-> func[data1[i].v, data2[i].v]])

\* internal::SumArray: the same reducer over the valid runs of one array
SumArray(data, func) ==
  TreeSum(data, [i \in 1 .. Len(data) |-> func[data[i].v]])

\* the callback of a plain sum
Identity == [value \in Values |-> ToDouble(value)]

(***************************************************************************)
(* IntegerCovariance: exact sums of one overflow-safe chunk.               *)
(***************************************************************************)
\* the range of int64_t and of int128_t, with the scaled widths
InInt64(v) == 0 - 2 ^ SumBits <= v /\ v < 2 ^ SumBits

InInt128(v) == 0 - 2 ^ (2 * SumBits + 1) <= v /\ v < 2 ^ (2 * SumBits + 1)

\* no_overflow is history: every sum so far was inside the range of its type
IntegerCovariance0 ==
  [count |-> 0, sum_x |-> 0, sum_y |-> 0, sum_xy |-> 0, no_overflow |-> TRUE]

ConsumeOne(cov, value_x, value_y) ==
  [count |-> cov.count + 1,
   sum_x |-> cov.sum_x + value_x,
   sum_y |-> cov.sum_y + value_y,
   sum_xy |-> cov.sum_xy + value_x * value_y,
   no_overflow |-> /\ cov.no_overflow
                   /\ InInt64(cov.sum_x + value_x)
                   /\ InInt64(cov.sum_y + value_y)
                   /\ InInt128(cov.sum_xy + value_x * value_y)]

\* division rounding toward minus infinity
FloorDiv(a, b) == a \div b

\* C++ integer division truncates toward zero; % takes the dividend's sign
TruncDiv(a, b) == Sign(a) * Sign(b) * (Abs(a) \div Abs(b))

TruncRem(a, b) == a - b * TruncDiv(a, b)

IntMeanX(cov) == RDiv(ToDouble(cov.sum_x), ToDouble(cov.count))

IntMeanY(cov) == RDiv(ToDouble(cov.sum_y), ToDouble(cov.count))

IntMxy(cov) ==
  LET sum_square == cov.sum_x * cov.sum_y
      integers == TruncDiv(sum_square, cov.count)
      fractions == RDiv(ToDouble(TruncRem(sum_square, cov.count)),
                        ToDouble(cov.count))
  IN  RSub(ToDouble(cov.sum_xy - integers), fractions)

\* the visit of one slice: every slot of a valid run of x, with the buffer
\* content of y at the same position
RECURSIVE ConsumeRun(_, _, _, _, _)
ConsumeRun(cov, slice_x, slice_y, first, len) ==
  IF len = 0 THEN cov
  ELSE ConsumeRun(ConsumeOne(cov, slice_x[first].v, slice_y[first].v),
                  slice_x, slice_y, first + 1, len - 1)

RECURSIVE ConsumeRuns(_, _, _, _)
ConsumeRuns(cov, slice_x, slice_y, runs) ==
  IF runs = <<>> THEN cov
  ELSE ConsumeRuns(ConsumeRun(cov, slice_x, slice_y, Head(runs)[1] + 1, Head(runs)[2]),
                   slice_x, slice_y, Tail(runs))

(***************************************************************************)
(* CovarianceState                                                         *)
(***************************************************************************)
CovarianceState0 ==
  [count |-> 0, mean_x |-> ToDouble(0), mean_y |-> ToDouble(0),
   m_xy |-> ToDouble(0), all_valid |-> TRUE]

MergeMean(mean1, count1, mean2, count2, count) ==
  RDiv(RAdd(RMul(mean1, ToDouble(count1)), RMul(mean2, ToDouble(count2))),
       ToDouble(count))

\* CovMergeFrom without the two early returns for an empty operand
CovMergeFromNoEmptyCase(this, other) ==
  LET count1 == this.count
      count2 == other.count
      count == count1 + count2
      mean_x == MergeMean(this.mean_x, count1, other.mean_x, count2, count)
      mean_y == MergeMean(this.mean_y, count1, other.mean_y, count2, count)
      d1 == RMul(RMul(ToDouble(count1), RSub(this.mean_x, mean_x)),
                 RSub(this.mean_y, mean_y))
      d2 == RMul(RMul(ToDouble(count2), RSub(other.mean_x, mean_x)),
                 RSub(other.mean_y, mean_y))
  IN  [count |-> count, mean_x |-> mean_x, mean_y |-> mean_y,
       m_xy |-> RAdd(this.m_xy, RAdd(RAdd(other.m_xy, d1), d2)),
       all_valid |-> this.all_valid /\ other.all_valid]

CovMergeFrom(this, other) ==
  LET all_valid == this.all_valid /\ other.all_valid
  IN  IF other.count = 0 THEN [this EXCEPT !.all_valid = all_valid]
      ELSE IF this.count = 0
        THEN [count |-> other.count, mean_x |-> other.mean_x,
              mean_y |-> other.mean_y, m_xy |-> other.m_xy,
              all_valid |-> all_valid]
      ELSE
        LET count1 == this.count
            count2 == other.count
            count == count1 + count2
            mean_x == MergeMean(this.mean_x, count1, other.mean_x, count2, count)
            mean_y == MergeMean(this.mean_y, count1, other.mean_y, count2, count)
            m22 == other.m_xy
            d1 == RMul(RMul(ToDouble(count1), RSub(this.mean_x, mean_x)),
                       RSub(this.mean_y, mean_y))
            d2 == RMul(RMul(ToDouble(count2), RSub(other.mean_x, mean_x)),
                       RSub(other.mean_y, mean_y))
        IN  [count |-> count, mean_x |-> mean_x, mean_y |-> mean_y,
             m_xy |-> RAdd(this.m_xy, RAdd(RAdd(m22, d1), d2)),
             all_valid |-> all_valid]

\* max_length one bit too long
max_lengthDouble == 2 ^ (SumBits - ElemBits + 1)

\* 1ULL << (63 - sizeof(CType) * 8), with the scaled widths
max_length == 2 ^ (SumBits - ElemBits)

\* the state built from one chunk's IntegerCovariance
IntChunkState(cov) ==
  [count |-> cov.count, mean_x |-> IntMeanX(cov), mean_y |-> IntMeanY(cov),
   m_xy |-> IntMxy(cov), all_valid |-> TRUE]

RECURSIVE IntConsumeLoop(_, _, _, _, _, _, _)
IntConsumeLoop(this, array_x, array_y, start_index_x, start_index_y, valid_count_x, valid_count_y) ==
  IF ~(valid_count_x > 0 /\ valid_count_y > 0) THEN this
  ELSE
    LET slice_x == SetSlice(array_x, start_index_x,
                            Min(max_length, Len(array_x) - start_index_x))
        slice_y == SetSlice(array_y, start_index_y,
                            Min(max_length, Len(array_y) - start_index_y))
        count_x == Len(slice_x) - GetNullCount(slice_x)
        count_y == Len(slice_y) - GetNullCount(slice_y)
        cov == ConsumeRuns(IntegerCovariance0, slice_x, slice_y,
                           VisitSetBitRuns(slice_x))
        merged == IF count_x > 0 /\ count_y > 0
                    THEN CovMergeFrom(this, IntChunkState(cov))
                    ELSE this
    IN  IntConsumeLoop(merged, array_x, array_y,
                       start_index_x + Len(slice_x), start_index_y + Len(slice_y),
                       valid_count_x - count_x, valid_count_y - count_y)

\* the chunks of the same loop, in order: the two slices, whether an
\* IntegerCovariance was made for them, and that accumulator after the visit
RECURSIVE IntChunks(_, _, _, _, _, _)
IntChunks(array_x, array_y, start_index_x, start_index_y, valid_count_x, valid_count_y) ==
  IF ~(valid_count_x > 0 /\ valid_count_y > 0) THEN <<>>
  ELSE
    LET slice_x == SetSlice(array_x, start_index_x,
                            Min(max_length, Len(array_x) - start_index_x))
        slice_y == SetSlice(array_y, start_index_y,
                            Min(max_length, Len(array_y) - start_index_y))
        count_x == Len(slice_x) - GetNullCount(slice_x)
        count_y == Len(slice_y) - GetNullCount(slice_y)
    IN  <<[slice_x |-> slice_x, slice_y |-> slice_y,
           fed |-> count_x > 0 /\ count_y > 0,
           cov |-> ConsumeRuns(IntegerCovariance0, slice_x, slice_y,
                               VisitSetBitRuns(slice_x))]>>
          \o IntChunks(array_x, array_y,
                       start_index_x + Len(slice_x), start_index_y + Len(slice_y),
                       valid_count_x - count_x, valid_count_y - count_y)

\* Consume, narrow-integer element types (sizeof(CType) <= 4)
CovConsumeInt(this, opts, array_x, array_y) ==
  LET all_valid == GetNullCount(array_x) = 0 /\ GetNullCount(array_y) = 0
  IN  IF ~all_valid /\ ~opts.skip_nulls
        THEN [st |-> [this EXCEPT !.all_valid = all_valid], status |-> "OK"]
        ELSE [st |-> IntConsumeLoop([this EXCEPT !.all_valid = all_valid],
                                    array_x, array_y, 0, 0,
                                    Len(array_x) - GetNullCount(array_x),
                                    Len(array_y) - GetNullCount(array_y)),
              status |-> "OK"]

\* the callback of the second pass: (vX - _mean_x) * (vY - _mean_y)
Centered(mean_x, mean_y) ==
  [value_x \in Values, value_y \in Values |->
     RMul(RSub(ToDouble(value_x), mean_x), RSub(ToDouble(value_y), mean_y))]

\* the second pass and the four assignments that end Consume
FloatSecondPass(array_x, array_y, count, mean_x, mean_y, all_valid) ==
  [count |-> count, mean_x |-> mean_x, mean_y |-> mean_y,
   m_xy |-> SumArray2WithCovariance(array_x, array_y, Centered(mean_x, mean_y)),
   all_valid |-> all_valid]

\* Consume, floating and wide element types (two passes)
CovConsumeFloat(this, opts, array_x, array_y) ==
  LET all_valid == GetNullCount(array_x) = 0 /\ GetNullCount(array_y) = 0
      count_x == Len(array_x) - GetNullCount(array_x)
      count_y == Len(array_y) - GetNullCount(array_y)
      count == Len(array_x) - GetNullCount(array_x)
  IN  IF count_x # count_y
        THEN [st |-> [this EXCEPT !.all_valid = all_valid], status |-> "throw"]
      ELSE IF count = 0 \/ (~all_valid /\ ~opts.skip_nulls)
        THEN [st |-> [this EXCEPT !.all_valid = all_valid], status |-> "OK"]
      ELSE [st |-> FloatSecondPass(array_x, array_y, count,
                                   RDiv(SumArray(array_x, Identity), ToDouble(count)),
                                   RDiv(SumArray(array_y, Identity), ToDouble(count)),
                                   all_valid),
            status |-> "OK"]

\* the enable_if dispatch on the element type
CovConsume(this, opts, type, array_x, array_y) ==
  IF type = "narrow_int" THEN CovConsumeInt(this, opts, array_x, array_y)
                         ELSE CovConsumeFloat(this, opts, array_x, array_y)

(***************************************************************************)
(* CorrelationState                                                        *)
(***************************************************************************)
CorrelationState0 ==
  [covarianceState |-> CovarianceState0, mx2 |-> ToDouble(0), my2 |-> ToDouble(0)]

\* the callback of mx2 and my2: (v - mean) * (v - mean)
SqDev(mean) ==
  [value \in Values |-> RMul(RSub(ToDouble(value), mean), RSub(ToDouble(value), mean))]

\* the two sums after covarianceState.Consume, which left r; an exception
\* leaves Consume before them
SumSqDev(this, r, x, y) ==
  IF r.status = "throw"
    THEN [st |-> [this EXCEPT !.covarianceState = r.st], status |-> "throw"]
    ELSE [st |-> [covarianceState |-> r.st,
                  mx2 |-> SumArray(x, SqDev(r.st.mean_x)),
                  my2 |-> SumArray(y, SqDev(r.st.mean_y))],
          status |-> "OK"]

CorrConsume(this, opts, type, x, y) ==
  SumSqDev(this, CovConsume(this.covarianceState, opts, type, x, y), x, y)

\* *out_m2 += m22 + count1*(mean1-mean)^2 + count2*(mean2-mean)^2
MergeVarStd2(count1, mean1, count2, mean2, m22, out_m2) ==
  LET mean == RDiv(RAdd(RMul(mean1, ToDouble(count1)), RMul(mean2, ToDouble(count2))),
                   ToDouble(count1 + count2))
      d1 == RMul(RMul(ToDouble(count1), RSub(mean1, mean)), RSub(mean1, mean))
      d2 == RMul(RMul(ToDouble(count2), RSub(mean2, mean)), RSub(mean2, mean))
  IN  RAdd(out_m2, RAdd(RAdd(m22, d1), d2))

CorrMergeFrom(this, other) ==
  LET count1 == this.covarianceState.count
      meanx == this.covarianceState.mean_x
      mean_y == this.covarianceState.mean_y
  IN  [covarianceState |-> CovMergeFrom(this.covarianceState, other.covarianceState),
       mx2 |-> MergeVarStd2(count1, meanx, other.covarianceState.count,
                            other.covarianceState.mean_x, other.mx2, this.mx2),
       my2 |-> MergeVarStd2(count1, mean_y, other.covarianceState.count,
                            other.covarianceState.mean_y, other.my2, this.my2)]

(***************************************************************************)
(* Finalize.  A result is [kind, v]: kind "null" is the "no value" scalar, *)
(* kind "value" carries the double v.                                      *)
(***************************************************************************)
NullScalar == [kind |-> "null", v |-> ToDouble(0)]

DoubleScalar(v) == [kind |-> "value", v |-> v]

\* FinalizeGate with count < ddof for count <= ddof
FinalizeGateOffByOne(cov_state, opts) ==
  \/ cov_state.count < opts.ddof
  \/ cov_state.count < opts.min_count
  \/ (~cov_state.all_valid /\ ~opts.skip_nulls)

FinalizeGate(cov_state, opts) ==
  \/ cov_state.count <= opts.ddof
  \/ cov_state.count < opts.min_count
  \/ (~cov_state.all_valid /\ ~opts.skip_nulls)

CovFinalize(cov_state, opts) ==
  IF FinalizeGate(cov_state, opts) THEN NullScalar
  ELSE DoubleScalar(RDiv(cov_state.m_xy, ToDouble(cov_state.count - opts.ddof)))

\* covar / (sqrt(var_x) * sqrt(var_y)).  The square roots are not rational:
\* the double r is carried as r * |r|, a bijection of the extended reals, so
\* that two results are equal exactly when their encodings are.
CorrOf(covar, var_x, var_y) ==
  IF var_x[1] < 0 \/ var_y[1] < 0 THEN NaN
  ELSE RMul(RSign(covar), RDiv(RMul(covar, covar), RMul(var_x, var_y)))

CorrFinalize(this, opts) ==
  LET cov_state == this.covarianceState
      n == ToDouble(cov_state.count - opts.ddof)
  IN  IF FinalizeGate(cov_state, opts) THEN NullScalar
      ELSE DoubleScalar(CorrOf(RDiv(cov_state.m_xy, n),
                               RDiv(this.mx2, n), RDiv(this.my2, n)))

(***************************************************************************)
(* The aggregation kernels.  Every accumulator is modelled as the          *)
(* CorrelationState of a CorrelationImpl; its covarianceState field is the *)
(* CovarianceState of a CovarianceImpl fed the same calls.                 *)
(*                                                                         *)
(* hist is history, not program state: for each accumulator the number of  *)
(* slots (n) and of null slots (nulls) of the batches that flowed into it, *)
(* the conjunction of their no-null flags, under SpecValid the pairs of    *)
(* these batches (data, kept sorted), whether one of them was empty, and   *)
(* the shape of its history:                                               *)
(*   "fresh"  nothing was consumed or merged;                              *)
(*   "leaf"   exactly one Consume, of a null-free batch (SpecValid);       *)
(*   "tree"   a merge of leaves and trees;                                 *)
(*   "mixed"  anything else.                                               *)
(* last records the latest call and what it returned; under Spec also its  *)
(* operands and the receiver and the source as they were before it.        *)
(***************************************************************************)
Options ==
  {o \in [ddof : {0, 1}, skip_nulls : BOOLEAN, min_count : {0, 2}] :
     o.ddof = 0 \/ o.min_count = 0}

\* VarianceOptions::Defaults()
DefaultOptions == [ddof |-> 0, skip_nulls |-> TRUE, min_count |-> 0]

CTypes == {"narrow_int", "float"}

Hist0 ==
  [data |-> <<>>, n |-> 0, nulls |-> 0, flags |-> TRUE, empty |-> FALSE,
   shape |-> "fresh"]

PairLeq(p, q) == p[1] < q[1] \/ (p[1] = q[1] /\ p[2] <= q[2])

RECURSIVE SortedMerge(_, _)
SortedMerge(s, t) ==
  IF s = <<>> THEN t
  ELSE IF t = <<>> THEN s
  ELSE IF PairLeq(Head(s), Head(t))
    THEN <<Head(s)>> \o SortedMerge(Tail(s), t)
    ELSE <<Head(t)>> \o SortedMerge(s, Tail(t))

RECURSIVE PairsOf(_, _)
PairsOf(x, y) ==
  IF x = <<>> THEN <<>>
  ELSE SortedMerge(<<<<Head(x).v, Head(y).v>>>>, PairsOf(Tail(x), Tail(y)))

\* the null-free arrays holding the pairs of a history
ArrayX(data) == [i \in 1 .. Len(data) |-> [valid |-> TRUE, v |-> data[i][1]]]

ArrayY(data) == [i \in 1 .. Len(data) |-> [valid |-> TRUE, v |-> data[i][2]]]

NoCall ==
  [op |-> "none", dst |-> 0, src |-> 0, x |-> <<>>, y |-> <<>>,
   before |-> CorrelationState0, other |-> CorrelationState0,
   status |-> "OK", out |-> [cov |-> NullScalar, corr |-> NullScalar]]

\* ShiftOptions::fill_value: no scalar (nullptr), a null scalar, or a value
NoFill == [given |-> FALSE, valid |-> FALSE, v |-> 0]

Fills == {NoFill} \cup [given : {TRUE}, valid : BOOLEAN, v : Values]

NullFill == [given |-> TRUE, valid |-> FALSE, v |-> 0]

ShiftIdle ==
  [x |-> <<>>, periods |-> 0, fill |-> NoFill, junk |-> 0, out |-> <<>>,
   status |-> "idle"]

AutoCorrIdle ==
  [x |-> <<>>, lag |-> 0, type |-> "float", junk |-> 0, status |-> "idle",
   out |-> NullScalar]

\* no call of a function checked on its own (SpecChunks, SpecIntCov, SpecSum)
FnIdle == [op |-> "none", status |-> "idle"]

Init ==
  /\ options \in Options
  /\ ctype \in CTypes
  /\ state = [a \in 1 .. NAcc |-> CorrelationState0]
  /\ life = [a \in 1 .. NAcc |-> "live"]
  /\ hist = [a \in 1 .. NAcc |-> Hist0]
  /\ last = NoCall
  /\ sh = ShiftIdle
  /\ ac = AutoCorrIdle
  /\ fn = FnIdle

RECURSIVE SumOver(_, _)
SumOver(f, S) ==
  IF S = {} THEN 0
  ELSE LET a == CHOOSE b \in S : TRUE IN f[a] + SumOver(f, S \ {a})

TotalLen == SumOver([a \in Acc |-> hist[a].n], Acc)

TotalNulls == SumOver([a \in Acc |-> hist[a].nulls], Acc)

NoNulls(x, y) == GetNullCount(x) = 0 /\ GetNullCount(y) = 0

Running == \A a \in Acc : life[a] # "finalized"

\* CovarianceImpl::Consume / CorrelationImpl::Consume on two arrays; keep
\* tells whether the history records the pairs of the batch and its being
\* empty (SpecValid) or last records the operands of the call (Spec)
Consume(a, x, y, keep) ==
  /\ Running
  /\ life[a] = "live"
  /\ Len(x) = Len(y)
  /\ \E r \in {CorrConsume(state[a], options, ctype, x, y)} :
         /\ state' = [state EXCEPT ![a] = r.st]
         /\ hist' = [hist EXCEPT ![a] =
                       [data |-> IF keep THEN SortedMerge(@.data, PairsOf(x, y))
                                         ELSE @.data,
                        n |-> @.n + Len(x),
                        nulls |-> @.nulls + GetNullCount(x) + GetNullCount(y),
                        flags |-> @.flags /\ NoNulls(x, y),
                        empty |-> @.empty \/ (keep /\ Len(x) = 0),
                        shape |-> IF keep /\ @.shape = "fresh" /\ NoNulls(x, y)
                                    THEN "leaf" ELSE "mixed"]]
         /\ last' = IF keep
                      THEN [NoCall EXCEPT !.op = "consume", !.dst = a,
                                          !.status = r.status]
                      ELSE [NoCall EXCEPT !.op = "consume", !.dst = a,
                                          !.x = x, !.y = y, !.before = state[a],
                                          !.status = r.status]
  /\ UNCHANGED <<options, ctype, life, sh, ac, fn>>

\* Consume on a batch that is not two arrays: Status::Invalid, nothing consumed
ConsumeScalar(a) ==
  /\ Running
  /\ life[a] = "live"
  /\ last' = [NoCall EXCEPT !.op = "consume_scalar", !.dst = a,
                            !.before = state[a], !.status = "Invalid"]
  /\ UNCHANGED <<options, ctype, state, life, hist, sh, ac, fn>>

\* CovarianceImpl::MergeFrom / CorrelationImpl::MergeFrom; src is moved from
MergeFrom(a, b, keep) ==
  /\ Running
  /\ a # b
  /\ life[a] = "live"
  /\ life[b] = "live"
  /\ state' = [state EXCEPT ![a] = CorrMergeFrom(state[a], state[b])]
  /\ life' = [life EXCEPT ![b] = "moved"]
  /\ hist' = [hist EXCEPT
                ![a] = [data |-> SortedMerge(@.data, hist[b].data),
                        n |-> @.n + hist[b].n,
                        nulls |-> @.nulls + hist[b].nulls,
                        flags |-> @.flags /\ hist[b].flags,
                        empty |-> @.empty \/ hist[b].empty,
                        shape |-> IF @.shape \in {"leaf", "tree"}
                                     /\ hist[b].shape \in {"leaf", "tree"}
                                    THEN "tree" ELSE "mixed"],
                ![b] = [@ EXCEPT !.data = <<>>, !.n = 0, !.nulls = 0]]
  /\ last' = IF keep
               THEN [NoCall EXCEPT !.op = "merge", !.dst = a, !.src = b]
               ELSE [NoCall EXCEPT !.op = "merge", !.dst = a, !.src = b,
                                   !.before = state[a], !.other = state[b]]
  /\ UNCHANGED <<options, ctype, sh, ac, fn>>

\* CovarianceImpl::Finalize and CorrelationImpl::Finalize of the same state
Finalize(a) ==
  /\ Running
  /\ life[a] = "live"
  /\ life' = [life EXCEPT ![a] = "finalized"]
  /\ last' = [NoCall EXCEPT !.op = "finalize", !.dst = a, !.before = state[a],
                            !.out = [cov |-> CovFinalize(state[a].covarianceState, options),
                                     corr |-> CorrFinalize(state[a], options)]]
  /\ UNCHANGED <<options, ctype, state, hist, sh, ac, fn>>

Batches == {xy \in Arrays(MaxLen) \X Arrays(MaxLen) : Len(xy[1]) = Len(xy[2])}

\* the input budget of a behaviour
Budget(x, y, total, nulls) ==
  /\ TotalLen + Len(x) <= total
  /\ TotalNulls + GetNullCount(x) + GetNullCount(y) <= nulls

Next ==
  \/ \E a \in Acc, xy \in Batches :
       Budget(xy[1], xy[2], MaxTotal, MaxNulls) /\ Consume(a, xy[1], xy[2], FALSE)
  \/ \E a \in Acc : ConsumeScalar(a)
  \/ \E a, b \in Acc : MergeFrom(a, b, FALSE)
  \/ \E a \in Acc : Finalize(a)

Spec == Init /\ [][Next]_vars

(***************************************************************************)
(* SpecValid: the fork-join protocol on a null-free dataset.  Every        *)
(* accumulator consumes at most one batch, null-free and possibly empty,   *)
(* while it is fresh; the partial states are then merged in any order and  *)
(* pairing.  More accumulators and a larger input budget than Spec.        *)
(***************************************************************************)
InitValid ==
  /\ options = DefaultOptions
  /\ ctype \in CTypes
  /\ state = [a \in 1 .. NAccValid |-> CorrelationState0]
  /\ life = [a \in 1 .. NAccValid |-> "live"]
  /\ hist = [a \in 1 .. NAccValid |-> Hist0]
  /\ last = NoCall
  /\ sh = ShiftIdle
  /\ ac = AutoCorrIdle
  /\ fn = FnIdle

ValidBatches == {xy \in Batches : NoNulls(xy[1], xy[2])}

NextValid ==
  \/ \E a \in Acc, xy \in ValidBatches :
       /\ hist[a].shape = "fresh"
       /\ Budget(xy[1], xy[2], MaxValidTotal, 0)
       /\ Consume(a, xy[1], xy[2], TRUE)
  \/ \E a, b \in Acc : MergeFrom(a, b, TRUE)

SpecValid == InitValid /\ [][NextValid]_vars

(***************************************************************************)
(* Shift.  The builder leaves the buffer content of an appended null slot  *)
(* unspecified: junk is that content.                                      *)
(***************************************************************************)
NullSlot(junk) == [valid |-> FALSE, v |-> junk]

\* builder->AppendScalar(*replace_value_, n) / builder->AppendNulls(n)
AppendFill(replace_value, n, junk) ==
  [i \in 1 .. n |-> IF replace_value.given /\ replace_value.valid
                      THEN [valid |-> TRUE, v |-> replace_value.v]
                      ELSE NullSlot(junk)]

\* builder->AppendScalar(*x->GetScalar(i)) for i in first .. limit - 1
AppendRange(x, first, limit, junk) ==
  [k \in 1 .. Max(0, limit - first) |->
     IF x[first + k].valid THEN x[first + k] ELSE NullSlot(junk)]

\* ShiftExecute copying from index 1 in the right shift
ShiftExecuteOffByOne(x, shift_value, replace_value, junk) ==
  LET N == Len(x)
      shift_len == Abs(shift_value)
  IN  IF shift_value > 0
        THEN AppendFill(replace_value, shift_len, junk)
               \o AppendRange(x, 1, N - shift_len + 1, junk)
        ELSE AppendRange(x, shift_len, N, junk)
               \o AppendFill(replace_value, shift_len, junk)

ShiftExecute(x, shift_value, replace_value, junk) ==
  LET N == Len(x)
      shift_len == Abs(shift_value)
  IN  IF shift_value > 0
        THEN AppendFill(replace_value, shift_len, junk)
               \o AppendRange(x, 0, N - shift_len, junk)
        ELSE AppendRange(x, shift_len, N, junk)
               \o AppendFill(replace_value, shift_len, junk)

Periods == (0 - MaxPeriods) .. MaxPeriods

InitShift ==
  /\ options = DefaultOptions
  /\ ctype = "float"
  /\ state = [a \in 1 .. NAcc |-> CorrelationState0]
  /\ life = [a \in 1 .. NAcc |-> "live"]
  /\ hist = [a \in 1 .. NAcc |-> Hist0]
  /\ last = NoCall
  /\ sh \in [x : Arrays(MaxShiftLen), periods : Periods, fill : Fills,
             junk : {0}, out : {<<>>}, status : {"ready"}]
  /\ ac = AutoCorrIdle
  /\ fn = FnIdle

\* ShiftKernel::Exec
Shift ==
  /\ sh.status = "ready"
  /\ \E junk \in Values :
       sh' = [sh EXCEPT !.junk = junk,
                        !.out = ShiftExecute(sh.x, sh.periods, sh.fill, junk),
                        !.status = "OK"]
  /\ UNCHANGED <<options, ctype, state, life, hist, last, ac, fn>>

NextShift == Shift

SpecShift == InitShift /\ [][NextShift]_vars

(***************************************************************************)
(* AutoCorr.  "cov" is called with the function's default options, on one  *)
(* batch; Variance and divide are the library's kernels.                   *)
(***************************************************************************)
\* CallFunction("cov", {x, y}): arguments of different lengths are refused;
\* else one batch is consumed by a new kernel state, which is finalized; an
\* exception thrown by Consume leaves the call
CovResult(r, opts) ==
  IF r.status = "throw" THEN [status |-> "throw", out |-> NullScalar]
  ELSE [status |-> "OK", out |-> CovFinalize(r.st, opts)]

CallCov(type, x, y, opts) ==
  IF Len(x) # Len(y) THEN [status |-> "Invalid", out |-> NullScalar]
  ELSE CovResult(CovConsume(CovarianceState0, opts, type, x, y), opts)

\* Variance(input) with VarianceOptions::Defaults(): ddof 0, nulls skipped
Variance(x) ==
  LET n == Len(x) - GetNullCount(x)
  IN  IF n <= 0 THEN NullScalar
      ELSE DoubleScalar(RDiv(SumArray(x, SqDev(RDiv(SumArray(x, Identity), ToDouble(n)))),
                             ToDouble(n)))

\* CallFunction("divide", {a, b}) on double scalars: null if either is null
Divide(a, b) ==
  IF a.kind = "null" \/ b.kind = "null" THEN NullScalar
  ELSE DoubleScalar(RDiv(a.v, b.v))

\* the steps of AutoCorr after the cov call, which left covariance
AutoCorrDivide(input, lag, covariance) ==
  IF covariance.status # "OK"
    THEN [status |-> covariance.status, out |-> NullScalar]
    ELSE [status |-> "OK",
          out |-> Divide(Divide(covariance.out, Variance(input)),
                         DoubleScalar(ToDouble(Len(input) - 1 - lag)))]

AutoCorr(type, input, lag, junk) ==
  IF lag > Len(input) THEN [status |-> "Invalid", out |-> NullScalar]
  ELSE AutoCorrDivide(input, lag,
                      CallCov(type, input, ShiftExecute(input, lag, NullFill, junk),
                              DefaultOptions))

InitAutoCorr ==
  /\ options = DefaultOptions
  /\ ctype = "float"
  /\ state = [a \in 1 .. NAcc |-> CorrelationState0]
  /\ life = [a \in 1 .. NAcc |-> "live"]
  /\ hist = [a \in 1 .. NAcc |-> Hist0]
  /\ last = NoCall
  /\ sh = ShiftIdle
  /\ ac \in [x : Arrays(MaxShiftLen), lag : Periods, type : CTypes, junk : {0},
             status : {"ready"}, out : {NullScalar}]
  /\ fn = FnIdle

CallAutoCorr ==
  /\ ac.status = "ready"
  /\ \E junk \in Values :
       \E r \in {AutoCorr(ac.type, ac.x, ac.lag, junk)} :
         ac' = [ac EXCEPT !.junk = junk, !.status = r.status, !.out = r.out]
  /\ UNCHANGED <<options, ctype, state, life, hist, last, sh, fn>>

NextAutoCorr == CallAutoCorr

SpecAutoCorr == InitAutoCorr /\ [][NextAutoCorr]_vars

(***************************************************************************)
(* SpecChunks: one Consume of the integer path on inputs longer than       *)
(* max_length, for a signed and an unsigned element type whose values      *)
(* range over the whole type.                                              *)
(***************************************************************************)
Signedness == {"signed", "unsigned"}

\* the values of the narrow integer type of ElemBits bits
ElemValues(sign) ==
  IF sign = "signed" THEN (0 - 2 ^ (ElemBits - 1)) .. (2 ^ (ElemBits - 1) - 1)
  ELSE 0 .. (2 ^ ElemBits - 1)

ElemArrays(sign, n) ==
  {arr \in [1 .. n -> [valid : BOOLEAN, v : ElemValues(sign)]] :
     GetNullCount(arr) <= MaxChunkedNulls}

ChunkedCalls ==
  UNION {[op : {"chunks"}, status : {"ready"}, sign : {sign},
          x : ElemArrays(sign, n), y : ElemArrays(sign, n),
          chunks : {<<>>}, st : {CovarianceState0}] :
           sign \in Signedness, n \in 0 .. MaxChunkedLen}

InitChunks ==
  /\ options = DefaultOptions
  /\ ctype = "narrow_int"
  /\ state = [a \in 1 .. NAcc |-> CorrelationState0]
  /\ life = [a \in 1 .. NAcc |-> "live"]
  /\ hist = [a \in 1 .. NAcc |-> Hist0]
  /\ last = NoCall
  /\ sh = ShiftIdle
  /\ ac = AutoCorrIdle
  /\ fn \in ChunkedCalls

\* CovarianceState::Consume (integer path) on a new state
ConsumeChunked ==
  /\ fn.op = "chunks"
  /\ fn.status = "ready"
  /\ fn' = [fn EXCEPT
              !.status = "OK",
              !.chunks = IntChunks(fn.x, fn.y, 0, 0,
                                   Len(fn.x) - GetNullCount(fn.x),
                                   Len(fn.y) - GetNullCount(fn.y)),
              !.st = CovConsumeInt(CovarianceState0, options, fn.x, fn.y).st]
  /\ UNCHANGED <<options, ctype, state, life, hist, last, sh, ac>>

NextChunks == ConsumeChunked

SpecChunks == InitChunks /\ [][NextChunks]_vars

(***************************************************************************)
(* SpecIntCov: one IntegerCovariance fed a sequence of pairs of either     *)
(* sign, then asked for m_xy.                                              *)
(***************************************************************************)
IntPairs == ((0 - MaxIntVal) .. MaxIntVal) \X ((0 - MaxIntVal) .. MaxIntVal)

IntCovCalls ==
  UNION {[op : {"intcov"}, status : {"ready"}, pairs : [1 .. n -> IntPairs],
          cov : {IntegerCovariance0}, m_xy : {ToDouble(0)}] :
           n \in 1 .. MaxIntPairs}

InitIntCov ==
  /\ options = DefaultOptions
  /\ ctype = "narrow_int"
  /\ state = [a \in 1 .. NAcc |-> CorrelationState0]
  /\ life = [a \in 1 .. NAcc |-> "live"]
  /\ hist = [a \in 1 .. NAcc |-> Hist0]
  /\ last = NoCall
  /\ sh = ShiftIdle
  /\ ac = AutoCorrIdle
  /\ fn \in IntCovCalls

\* cov.ConsumeOne(value_x, value_y) for every pair, in order
RECURSIVE ConsumePairs(_, _)
ConsumePairs(cov, pairs) ==
  IF pairs = <<>> THEN cov
  ELSE ConsumePairs(ConsumeOne(cov, Head(pairs)[1], Head(pairs)[2]), Tail(pairs))

\* the pairs are consumed and m_xy() is taken
ConsumeAndMxy ==
  /\ fn.op = "intcov"
  /\ fn.status = "ready"
  /\ \E cov \in {ConsumePairs(IntegerCovariance0, fn.pairs)} :
       fn' = [fn EXCEPT !.status = "OK", !.cov = cov, !.m_xy = IntMxy(cov)]
  /\ UNCHANGED <<options, ctype, state, life, hist, last, sh, ac>>

NextIntCov == ConsumeAndMxy

SpecIntCov == InitIntCov /\ [][NextIntCov]_vars

(***************************************************************************)
(* SpecSum: one call of SumArray2WithCovariance.  The validity pattern of  *)
(* data1 is either any pattern up to MaxPatternLen, or up to MaxRuns runs  *)
(* of valid slots whose lengths lie around the block size, each after a    *)
(* gap of 0 or 1 null slots, with or without a null slot at the end.  The  *)
(* value buffer of data1 holds the position and that of data2 holds 1 or   *)
(* 2, at null slots too; data2 has nulls of its own.                       *)
(***************************************************************************)
RunLens == {1, kBlockSize - 1, kBlockSize, kBlockSize + 1, 2 * kBlockSize,
            2 * kBlockSize + 1}

Falses(n) == [i \in 1 .. n |-> FALSE]

Trues(n) == [i \in 1 .. n |-> TRUE]

\* the pattern of a sequence of <<gap, run length>>
RECURSIVE PatternOf(_)
PatternOf(runs) ==
  IF runs = <<>> THEN <<>>
  ELSE Falses(Head(runs)[1]) \o Trues(Head(runs)[2]) \o PatternOf(Tail(runs))

ShortPatterns == UNION {[1 .. n -> BOOLEAN] : n \in 0 .. MaxPatternLen}

LongPatterns ==
  {PatternOf(runs) \o Falses(tail) :
     runs \in UNION {[1 .. k -> (0 .. 1) \X RunLens] : k \in 1 .. MaxRuns},
     tail \in 0 .. 1}

SumCalls ==
  [op : {"sum"}, status : {"ready"}, valid : ShortPatterns \cup LongPatterns,
   sum : {ToDouble(0)}, levels : {0}, rs : {<<>>}]

\* the operands of a call with the validity pattern valid for data1
Data1(valid) == [i \in 1 .. Len(valid) |-> [valid |-> valid[i], v |-> i]]

Data2(valid) == [i \in 1 .. Len(valid) |-> [valid |-> i % 3 # 0, v |-> 1 + (i % 2)]]

\* the callback: the product of the two values
Product(n) == [value_x \in 0 .. n, value_y \in 1 .. 2 |-> ToDouble(value_x * value_y)]

InitSum ==
  /\ options = DefaultOptions
  /\ ctype = "float"
  /\ state = [a \in 1 .. NAcc |-> CorrelationState0]
  /\ life = [a \in 1 .. NAcc |-> "live"]
  /\ hist = [a \in 1 .. NAcc |-> Hist0]
  /\ last = NoCall
  /\ sh = ShiftIdle
  /\ ac = AutoCorrIdle
  /\ fn \in SumCalls

\* SumArray2WithCovariance(data1, data2, func); levels and the reducer's
\* variables at the end of the visit are kept beside the result, unless the
\* call returns 0 at once for want of a valid slot
CallSumArray2 ==
  /\ fn.op = "sum"
  /\ fn.status = "ready"
  /\ \E data1 \in {Data1(fn.valid)}, data2 \in {Data2(fn.valid)},
        func \in {Product(Len(fn.valid))} :
       fn' = [fn EXCEPT
                !.status = "OK",
                !.sum = SumArray2WithCovariance(data1, data2, func),
                !.levels = IF Len(data1) - GetNullCount(data1) = 0 THEN 0
                           ELSE Log2(Len(data1) - GetNullCount(data1)) + 1,
                !.rs = IF Len(data1) - GetNullCount(data1) = 0 THEN <<>>
                       ELSE TreeReduce(data1, [i \in 1 .. Len(data1) |->
                                                 func[data1[i].v, data2[i].v]])]
  /\ UNCHANGED <<options, ctype, state, life, hist, last, sh, ac>>

NextSum == CallSumArray2

SpecSum == InitSum /\ [][NextSum]_vars

(***************************************************************************)
(* Claims                                                                  *)
(***************************************************************************)
Cov(a) == state[a].covarianceState

SameMoments(s, t) ==
  /\ s.count = t.count
  /\ s.mean_x = t.mean_x
  /\ s.mean_y = t.mean_y
  /\ s.m_xy = t.m_xy

\* one Consume of a whole null-free dataset by a new accumulator
OneConsume(data) ==
  CorrConsume(CorrelationState0, options, ctype, ArrayX(data), ArrayY(data)).st

\* accumulator a holds the moments of one Consume of its whole dataset
AsOneConsume(a) ==
  LET whole == OneConsume(hist[a].data)
  IN  /\ SameMoments(Cov(a), whole.covarianceState)
      /\ state[a].mx2 = whole.mx2
      /\ state[a].my2 = whole.my2

\* C1: merge order independence.  An accumulator whose history is a merge,
\* in any order and pairing and with either operand as the receiver, of
\* partial states that each consumed one null-free chunk of a split of the
\* dataset holds the count, mean_x, mean_y, m_xy, mx2 and my2 that one
\* Consume of the whole dataset gives a new accumulator.
C1_MergeOrderIndependent ==
  \A a \in Acc :
    (life[a] # "moved" /\ hist[a].shape \in {"leaf", "tree"}) => AsOneConsume(a)

\* the same for the splits all of whose chunks are non-empty
MergeOrderIndependentNonEmpty ==
  \A a \in Acc :
    (life[a] # "moved" /\ hist[a].shape \in {"leaf", "tree"} /\ ~hist[a].empty) =>
      AsOneConsume(a)

\* three non-empty partial states, all merged into one with a non-zero
\* cross-moment
NonEmptySplitMerged ==
  \E a \in Acc :
    /\ life[a] = "live"
    /\ hist[a].shape = "tree"
    /\ ~hist[a].empty
    /\ \A b \in Acc \ {a} : life[b] = "moved" /\ hist[b].shape \in {"leaf", "tree"}
    /\ Cov(a).m_xy # ToDouble(0)
    /\ Cov(a).count = MaxValidTotal

Zero == ToDouble(0)

\* C2: count = 0 is the identity of CovarianceState::MergeFrom.  After a
\* merge, if the source was empty the receiver's count, mean_x, mean_y and
\* m_xy are what they were; if the receiver was empty and the source was not,
\* they are the source's; if both were empty they are still 0.
C2_CovMergeIdentity ==
  last.op = "merge" =>
    LET this == last.before.covarianceState
        other == last.other.covarianceState
        now == Cov(last.dst)
    IN  /\ other.count = 0 => SameMoments(now, this)
        /\ (this.count = 0 /\ other.count > 0) => SameMoments(now, other)
        /\ (this.count = 0 /\ other.count = 0) =>
             /\ now.count = 0
             /\ now.mean_x = Zero /\ now.mean_y = Zero /\ now.m_xy = Zero

\* an empty receiver has just taken over a source with two pairs
C2_Witness ==
  /\ last.op = "merge"
  /\ last.before.covarianceState.count = 0
  /\ last.other.covarianceState.count = 2
  /\ last.other.covarianceState.m_xy # Zero
  /\ Cov(last.dst).m_xy = last.other.covarianceState.m_xy

\* C3: count = 0 is the identity of CorrelationState::MergeFrom.  After a
\* merge, if the source was empty mx2 and my2 are what they were; if the
\* receiver was empty they are the source's (0 when both were empty); they
\* are never the NaN of a division by a zero combined count.
C3_CorrMergeIdentity ==
  last.op = "merge" =>
    LET this == last.before
        other == last.other
        now == state[last.dst]
    IN  /\ other.covarianceState.count = 0 =>
             now.mx2 = this.mx2 /\ now.my2 = this.my2
        /\ (this.covarianceState.count = 0 /\ other.covarianceState.count > 0) =>
             now.mx2 = other.mx2 /\ now.my2 = other.my2
        /\ ~IsNaN(now.mx2) /\ ~IsNaN(now.my2)

\* C4: strict-null propagation.  With skip_nulls = false, all_valid of every
\* accumulator is the conjunction of the no-null flags of all batches that
\* were consumed by it or by a state merged into it, and Finalize of an
\* accumulator that saw a null yields "no value".
C4_StrictNullPropagates ==
  ~options.skip_nulls =>
    /\ \A a \in Acc : life[a] # "moved" => Cov(a).all_valid = hist[a].flags
    /\ (last.op = "finalize" /\ ~hist[last.dst].flags) =>
         last.out.cov.kind = "null" /\ last.out.corr.kind = "null"

\* C5: the Finalize gate.  Finalize of either aggregator returns OK; it
\* yields "no value" exactly when count <= ddof, count < min_count, or
\* all_valid is false without skip_nulls; otherwise count - ddof > 0 and the
\* result is the value normalised by count - ddof.
C5_FinalizeGate ==
  last.op = "finalize" =>
    LET st == last.before.covarianceState
        none == \/ st.count <= options.ddof
                \/ st.count < options.min_count
                \/ (~st.all_valid /\ ~options.skip_nulls)
        n == ToDouble(st.count - options.ddof)
    IN  /\ last.status = "OK"
        /\ last.out.cov.kind = "null" <=> none
        /\ last.out.corr.kind = "null" <=> none
        /\ ~none =>
             /\ st.count - options.ddof > 0
             /\ last.out.cov.v = RDiv(st.m_xy, n)
             /\ last.out.corr.v = CorrOf(RDiv(st.m_xy, n), RDiv(last.before.mx2, n),
                                         RDiv(last.before.my2, n))

\* the boundary count = ddof + 1 gives a non-zero covariance
C5_Witness ==
  /\ last.op = "finalize"
  /\ options.ddof = 1
  /\ last.before.covarianceState.count = options.ddof + 1
  /\ last.out.cov.kind = "value"
  /\ last.out.cov.v # Zero

\* C6: mismatched valid counts are a returned failure.  A Consume whose x and
\* y have different numbers of valid elements returns an Invalid status: it
\* does not throw and does not return OK.
C6_MismatchIsInvalid ==
  (last.op = "consume" /\ ValidCount(last.x) # ValidCount(last.y)) =>
    last.status = "Invalid"

\* the positions at which both operands are valid
Both(x, y) == {i \in 1 .. Len(x) : x[i].valid /\ y[i].valid}

\* the array holding, in order, the slots of arr at the positions keep
RECURSIVE Filter(_, _, _)
Filter(arr, keep, i) ==
  IF i > Len(arr) THEN <<>>
  ELSE (IF i \in keep THEN <<arr[i]>> ELSE <<>>) \o Filter(arr, keep, i + 1)

\* C7: with skip_nulls = true the statistics are those of the valid
\* intersection.  After one Consume, with equal valid counts, on a new
\* accumulator, count is the number of positions valid in both operands and
\* count, mean_x, mean_y and m_xy are what Consume gives for the pairs at
\* these positions alone.
C7_ValidIntersection ==
  (/\ last.op = "consume"
   /\ last.status = "OK"
   /\ options.skip_nulls
   /\ last.before = CorrelationState0
   /\ ValidCount(last.x) = ValidCount(last.y)) =>
    LET keep == Both(last.x, last.y)
        only == CovConsume(CovarianceState0, options, ctype,
                           Filter(last.x, keep, 1), Filter(last.y, keep, 1)).st
    IN  /\ Cov(last.dst).count = Cardinality(keep)
        /\ SameMoments(Cov(last.dst), only)

SameElement(s, t) == s.valid = t.valid /\ (s.valid => s.v = t.v)

IsFill(s) ==
  IF sh.fill.given /\ sh.fill.valid THEN s.valid /\ s.v = sh.fill.v ELSE ~s.valid

\* C8: Shift preserves length, for every periods and fill value.
C8_ShiftKeepsLength ==
  sh.status = "OK" => Len(sh.out) = Len(sh.x)

\* C9: Shift positions (i counted from 0).  For 0 < periods <= N,
\* output[i] = input[i - periods] for i >= periods and output[i] is the fill
\* (null without one) for i < periods; for -N <= periods < 0,
\* output[i] = input[i - periods] for i < N - |periods| and the last
\* |periods| positions hold the fill; for periods = 0 the output is the
\* input.  A null input element arrives as a null.
C9_ShiftPositions ==
  sh.status = "OK" =>
    LET N == Len(sh.x)
        p == sh.periods
    IN  (0 - N <= p /\ p <= N) =>
          /\ Len(sh.out) = N
          /\ p > 0 =>
               \A i \in 0 .. N - 1 :
                 IF i >= p THEN SameElement(sh.out[i + 1], sh.x[i - p + 1])
                           ELSE IsFill(sh.out[i + 1])
          /\ p < 0 =>
               \A i \in 0 .. N - 1 :
                 IF i < N + p THEN SameElement(sh.out[i + 1], sh.x[i - p + 1])
                              ELSE IsFill(sh.out[i + 1])
          /\ p = 0 =>
               \A i \in 1 .. N : SameElement(sh.out[i], sh.x[i])

\* a right shift by one that carries a null and a value and fills a value
C9_Witness ==
  /\ sh.status = "OK"
  /\ sh.periods = 1
  /\ Len(sh.x) = MaxShiftLen
  /\ sh.fill.given /\ sh.fill.valid
  /\ ~sh.x[1].valid /\ sh.x[2].valid
  /\ ~sh.out[2].valid /\ sh.out[3] = sh.x[2] /\ sh.out[1].valid

\* C10: AutoCorr outcome on null-free input.  lag > length fails with
\* InvalidArgument; every lag <= length returns OK with a finite double.
C10_AutoCorrOutcome ==
  (ac.status # "ready" /\ GetNullCount(ac.x) = 0) =>
    IF ac.lag > Len(ac.x)
      THEN ac.status = "Invalid"
      ELSE /\ ac.status = "OK"
           /\ ac.out.kind = "value"
           /\ IsFinite(ac.out.v)


\* the merge of the states of the chunks that were fed, in order
RECURSIVE MergeChunks(_, _)
MergeChunks(this, chunks) ==
  IF chunks = <<>> THEN this
  ELSE MergeChunks(IF Head(chunks).fed
                     THEN CovMergeFrom(this, IntChunkState(Head(chunks).cov))
                     ELSE this,
                   Tail(chunks))

\* C11: structural overflow safety of the integer path.  In one Consume,
\* for a signed and an unsigned narrow type and all element values, every
\* chunk is at most 2^(63 - bitwidth) slots long, its IntegerCovariance
\* starts from zero (its count is the number of valid slots of the x slice,
\* so no accumulator serves two chunks), sum_x and sum_y never leave the
\* int64 range and sum_xy never leaves the int128 range, and the state is
\* the merge of the chunks' states.
C11_ChunksCannotOverflow ==
  (fn.op = "chunks" /\ fn.status = "OK") =>
    /\ \A i \in DOMAIN fn.chunks :
         /\ Len(fn.chunks[i].slice_x) <= 2 ^ (SumBits - ElemBits)
         /\ fn.chunks[i].cov.count = ValidCount(fn.chunks[i].slice_x)
         /\ fn.chunks[i].cov.count <= 2 ^ (SumBits - ElemBits)
         /\ fn.chunks[i].cov.no_overflow
    /\ SameMoments(fn.st, MergeChunks(CovarianceState0, fn.chunks))

\* two chunks were fed, the first full of the largest unsigned value
C11_Witness ==
  /\ fn.op = "chunks" /\ fn.status = "OK"
  /\ fn.sign = "unsigned"
  /\ Len(fn.chunks) = 2
  /\ fn.chunks[1].fed /\ fn.chunks[2].fed
  /\ fn.chunks[1].cov.count = 2 ^ (SumBits - ElemBits)
  /\ fn.chunks[1].cov.sum_x = 2 ^ (SumBits - ElemBits) * (2 ^ ElemBits - 1)
  /\ fn.st.count = MaxChunkedLen


\* the two Consume overloads give a new state the same outcome for x and y
SamePathOutcome(x, y) ==
  \E i \in {CovConsumeInt(CovarianceState0, options, x, y)} :
    \E f \in {CovConsumeFloat(CovarianceState0, options, x, y)} :
      /\ i.status = f.status
      /\ SameMoments(i.st, f.st)
      /\ CovFinalize(i.st, options).kind = CovFinalize(f.st, options).kind

\* C12: path agreement.  For the same integer-valued operands, shorter than
\* the overflow-chunk bound, one Consume on a new state through the
\* integer-exact path and through the float two-pass path gives the same
\* outcome kind and the same count, mean_x, mean_y and m_xy: for null-free
\* input, for nulls with skip_nulls = true and equal valid counts, and for
\* nulls with skip_nulls = false.
C12_PathsAgree ==
  (/\ last.op = "consume"
   /\ \/ NoNulls(last.x, last.y)
      \/ ~options.skip_nulls
      \/ ValidCount(last.x) = ValidCount(last.y)) =>
    SamePathOutcome(last.x, last.y)

\* the same for the operands whose nulls, if any, are at the same positions
PathsAgreeOnSharedNulls ==
  (/\ last.op = "consume"
   /\ \A i \in 1 .. Len(last.x) : last.x[i].valid = last.y[i].valid) =>
    SamePathOutcome(last.x, last.y)


\* C13: the Consume-once contract of CorrelationState is guarded.  A
\* Consume on an instance that is not empty (count > 0) is rejected by an
\* assertion; so after every accepted Consume of a null-free batch the
\* instance's count and mean_x are those of that batch, the data mx2 was
\* computed from.
C13_ConsumeOnceGuarded ==
  last.op = "consume" =>
    /\ last.before.covarianceState.count > 0 => last.status = "assert"
    /\ (last.status = "OK" /\ NoNulls(last.x, last.y) /\ Len(last.x) > 0) =>
         /\ Cov(last.dst).count = Len(last.x)
         /\ Cov(last.dst).mean_x =
              RDiv(SumArray(last.x, Identity), ToDouble(Len(last.x)))


\* the state a new CovarianceState has after one Consume of a batch
ChunkState(x, y) == CovConsume(CovarianceState0, options, ctype, x, y).st

\* C14: repeated Consume accumulates.  When a CovarianceState that is new,
\* or holds what one Consume of a null-free chunk left, consumes a null-free
\* chunk, its count grows by the number of pairs of the chunk and its
\* count, mean_x, mean_y and m_xy are the merge of what it held with the
\* state of the chunk alone: nothing consumed earlier is discarded.
C14_ConsumeAccumulates ==
  (/\ last.op = "consume"
   /\ NoNulls(last.x, last.y)
   /\ \E b \in ValidBatches :
        SameMoments(last.before.covarianceState, ChunkState(b[1], b[2]))) =>
    /\ Cov(last.dst).count = last.before.covarianceState.count + Len(last.x)
    /\ SameMoments(Cov(last.dst),
                   CovMergeFrom(last.before.covarianceState,
                                ChunkState(last.x, last.y)))

\* the same on the narrow-integer path alone
IntConsumeAccumulates == ctype = "narrow_int" => C14_ConsumeAccumulates


\* the sum of f over 1 .. n
RECURSIVE SumTo(_, _)
SumTo(f, n) == IF n = 0 THEN ToDouble(0) ELSE RAdd(SumTo(f, n - 1), f[n])

\* the sum of the centered cross-products of a sequence of pairs
CenteredCrossSum(pairs) ==
  \E n \in {Len(pairs)} :
    \E mx \in {RDiv(SumTo([i \in 1 .. n |-> ToDouble(pairs[i][1])], n), ToDouble(n))} :
      \E my \in {RDiv(SumTo([i \in 1 .. n |-> ToDouble(pairs[i][2])], n), ToDouble(n))} :
        fn.m_xy = SumTo([i \in 1 .. n |->
                           RMul(RSub(ToDouble(pairs[i][1]), mx),
                                RSub(ToDouble(pairs[i][2]), my))], n)

\* C15: exact integer cross-moment.  For every IntegerCovariance with
\* count > 0 and every sign of sum_x and sum_y, the quotient q and the
\* remainder r of sum_x * sum_y by count satisfy q * count + r =
\* sum_x * sum_y with |r| < count, q rounded toward zero and r of the
\* dividend's sign; m_xy() = (sum_xy - q) - r / count; count * m_xy =
\* count * sum_xy - sum_x * sum_y; and m_xy is the sum of the centered
\* cross-products of the consumed pairs.
C15_ExactIntegerMxy ==
  (fn.op = "intcov" /\ fn.status = "OK") =>
    \E count \in {fn.cov.count} :
      \E sum_square \in {fn.cov.sum_x * fn.cov.sum_y} :
        \E q \in {TruncDiv(sum_square, count)} :
          \E r \in {TruncRem(sum_square, count)} :
            /\ count = Len(fn.pairs)
            /\ q * count + r = sum_square
            /\ Abs(r) < count
            /\ Abs(q) = Abs(sum_square) \div count
            /\ r = 0 \/ Sign(r) = Sign(sum_square)
            /\ fn.m_xy = RSub(ToDouble(fn.cov.sum_xy - q),
                              RDiv(ToDouble(r), ToDouble(count)))
            /\ RMul(ToDouble(count), fn.m_xy) =
                 ToDouble(count * fn.cov.sum_xy - sum_square)
            /\ CenteredCrossSum(fn.pairs)

\* sum_x and sum_y of opposite signs, a negative remainder
C15_Witness ==
  /\ fn.op = "intcov" /\ fn.status = "OK"
  /\ fn.cov.sum_x < 0 /\ fn.cov.sum_y > 0
  /\ TruncRem(fn.cov.sum_x * fn.cov.sum_y, fn.cov.count) < 0
  /\ TruncDiv(fn.cov.sum_x * fn.cov.sum_y, fn.cov.count) < 0


\* the sum of the integers f[i] over the positions i of S
RECURSIVE IntSumOver(_, _)
IntSumOver(f, S) ==
  IF S = {} THEN 0
  ELSE LET i == CHOOSE j \in S : TRUE IN f[i] + IntSumOver(f, S \ {i})

ValidPositions == {i \in 1 .. Len(fn.valid) : fn.valid[i]}

\* C16: ChunkedSummation totals every valid term once.  For every pattern
\* of valid and null runs of data1 (runs shorter than, equal to and longer
\* than the block size 16, lengths not a multiple of 16),
\* SumArray2WithCovariance returns the exact sum of func(x_i, y_i) over the
\* valid positions of data1, each once and no other position; it is 0
\* without a valid position.
C16_SumsEveryValidTermOnce ==
  (fn.op = "sum" /\ fn.status = "OK") =>
    /\ fn.sum = ToDouble(IntSumOver([i \in 1 .. Len(fn.valid) |->
                                       i * Data2(fn.valid)[i].v],
                                    ValidPositions))
    /\ ValidPositions = {} => fn.sum = ToDouble(0)

\* runs of 33 and 17 after a null each: five blocks, of which two stay
\* pending below the root level until the final fold
C16_Witness ==
  /\ fn.op = "sum" /\ fn.status = "OK"
  /\ fn.valid = PatternOf(<<<<1, 2 * kBlockSize + 1>>, <<1, kBlockSize + 1>>>>)
  /\ fn.rs.calls = 5
  /\ fn.rs.root_level = 2
  /\ fn.rs.sum[0] # ToDouble(0)
  /\ fn.sum # fn.rs.sum[2]

\* C17: level buffer bound of the tree reducer.  In every call of reduce
\* the level index stays below levels = ceil(log2(valid_count)) + 1, so
\* DCHECK_LT(cur_level, levels) holds and sum[] is indexed in range, for
\* every validity pattern, also those of many short runs where reduce is
\* called more than ceil(valid_count / 16) times.
C17_LevelBelowLevels ==
  (fn.op = "sum" /\ fn.status = "OK" /\ ValidPositions # {}) =>
    /\ fn.rs.ok
    /\ fn.rs.root_level < fn.levels
    /\ fn.levels = Log2(Cardinality(ValidPositions)) + 1
    /\ DOMAIN fn.rs.sum = 0 .. fn.levels - 1

\* four valid slots apart: four calls of reduce reach the last level
C17_Witness ==
  /\ fn.op = "sum" /\ fn.status = "OK"
  /\ Cardinality(ValidPositions) = 4
  /\ fn.rs.calls = 4
  /\ fn.rs.calls > (Cardinality(ValidPositions) + kBlockSize - 1) \div kBlockSize
  /\ fn.rs.root_level = fn.levels - 1

====
